---- MODULE Spec2Model ----
(***************************************************************************)
(* A model of the Protosite backend (src/backend/express_backend.ts):      *)
(*   - the GitHub export handler and its recursive repository walk         *)
(*     (POST /api/github/export, createFiles, createOrUpdateFile);         *)
(*   - the OAuth session store (POST /api/github/auth, GET                 *)
(*     /api/github/callback, POST /api/github/auth/status,                 *)
(*     cleanupAuthSessions);                                               *)
(*   - the generation pipeline (POST /api/upload, OpenAIService,           *)
(*     buildAppHierarchy).                                                 *)
(* The hosting provider is the environment: each of its calls either       *)
(* answers from the remote state or is rejected with an injected status.   *)
(***************************************************************************)
EXTENDS Integers, Sequences, FiniteSets, TLC

VARIABLES
    \* ---- export handler -------------------------------------------------
    projectTree,   \* the project data the client holds (sent as projectData)
    exPc,          \* position of the export handler
    exBody,        \* req.body of the export request being handled
    exIdx,         \* index of the current createOrUpdateFile call of the walk
    exSha,         \* `sha` local of createOrUpdateFile
    exCalls,       \* provider calls issued by the current export request
    exResp,        \* response sent for the current export request
    exRuns,        \* number of export requests received
    exFaults,      \* provider rejections injected during the current request
    exPrev,        \* body and outcome of the previous export request
    remote,        \* the provider's repositories of the authenticated user
    \* ---- OAuth session store --------------------------------------------
    GITHUB_CLIENT_ID,    \* process.env.GITHUB_CLIENT_ID ("" when unset)
    githubAuthSessions,  \* Map<state, {timestamp, token?}>
    now,                 \* Date.now()
    ticks,               \* number of clock advances
    issued,              \* number of state tokens generated so far
    callbacks,           \* callback requests awaiting the token exchange
    cbCount,             \* number of token exchanges started by callbacks
    granted,             \* state -> access tokens the provider returned to
                         \* callbacks carrying that state
    created,             \* state -> Date.now() when initiate stored it (-1:
                         \* not generated yet)
    authResp,            \* the last response sent by an auth handler
    \* ---- generation pipeline -------------------------------------------
    appStructure,        \* this.appStructure: the current project tree
    uploads,             \* the POST /api/upload requests received, in order:
                         \* position of the handler, response sent, length
                         \* of the fetched image, and the generated payload
                         \* once it is known
    completed,           \* the requests answered with a generated project,
                         \* in the order of their completion
    projResp,            \* the last response of GET /api/project
    \* ---- client: GitHub connect flow ----------------------------------
    clPc,                \* position of connectToGitHub / pollForGitHubAuth
    isConnecting,        \* React state isConnecting
    isGitHubConnected,   \* React state isGitHubConnected
    githubToken,         \* React state githubToken
    attempts,            \* `attempts` local of pollForGitHubAuth
    polls,               \* status polls issued by the current connect
    lastPoll             \* what the last status poll was answered with

exVars == <<projectTree, exPc, exBody, exIdx, exSha, exCalls, exResp, exRuns,
            exFaults, exPrev, remote>>
authVars == <<GITHUB_CLIENT_ID, githubAuthSessions, now, ticks, issued,
              callbacks, cbCount, granted, created, authResp>>
genVars == <<appStructure, uploads, completed, projResp>>
clVars == <<clPc, isConnecting, isGitHubConnected, githubToken, attempts,
           polls, lastPoll>>
vars == <<exVars, authVars, genVars, clVars>>

(***************************************************************************)
(* Bounds of the model.                                                    *)
(***************************************************************************)
MaxExports == 2     \* export requests per behaviour
MaxUploads == 2     \* generation requests per behaviour
MaxAuthSteps == 4   \* state tokens generated, token exchanges started and
                    \* clock advances, in total, per behaviour

(***************************************************************************)
(* JavaScript values of the project tree.  An object is the sequence of    *)
(* its [key, value] entries in Object.entries order.                       *)
(***************************************************************************)
File(contents) == [file |-> [contents |-> contents]]
Directory(entries) == [directory |-> entries]
JsString(s) == [primitive |-> s]
JsNull == [null |-> TRUE]
JsPlainObject == [other |-> TRUE]
\* An object given by its entries, where a value of any type may stand.
JsObject(entries) == [object |-> entries]

\* !value, for a string, null or an object
Falsy(value) ==
    \/ "null" \in DOMAIN value
    \/ "primitive" \in DOMAIN value /\ value.primitive = ""

\* typeof value === "object" && value != null
IsObject(value) == "primitive" \notin DOMAIN value /\ "null" \notin DOMAIN value

\* AppSchema.getAppSchema(): the fixed skeleton
getAppSchema ==
    << <<"package.json", File("package.json contents")>>,
       <<"vite.config.js", File("vite.config.js contents")>>,
       <<"index.html", File("index.html contents")>>,
       <<"src", Directory(<< <<"components", Directory(<<>>)>>,
                             <<"styles", Directory(<<>>)>> >>)>> >>

(***************************************************************************)
(* buildAppHierarchy.  The generated payload (finalOutput) is an object of *)
(* up to three sections, each the sequence of its [filename, code]         *)
(* entries.                                                                *)
(***************************************************************************)
Undefined == [undefined |-> TRUE]
Sections == {"components", "styles", "pages"}

\* The scenario payload: one component, one style, one page.
FullPayload ==
    [components |-> << <<"Nav.jsx", "nav">> >>,
     styles |-> << <<"index.css", "css">> >>,
     pages |-> << <<"main.jsx", "main">> >>]

\* The values generateAppContent may resolve to: the scenario payload with
\* any subset of its sections, no output at all, pages named like the
\* reserved directories or like root entries, one filename in all three
\* sections, and filenames that are array indices.
Payloads ==
    { [n \in S |-> FullPayload[n]] : S \in SUBSET Sections }
    \cup
    { Undefined,
      [components |-> << <<"Nav.jsx", "nav">> >>,
       styles |-> <<>>,
       pages |-> << <<"components", "page">> >>],
      [pages |-> << <<"components", "page">> >>],
      [components |-> <<>>,
       styles |-> << <<"index.css", "css">> >>,
       pages |-> << <<"main.jsx", "main">>, <<"styles", "page">> >>],
      [components |-> << <<"index.css", "a">> >>,
       styles |-> << <<"index.css", "b">> >>,
       pages |-> << <<"index.css", "c">> >>],
      [components |-> <<>>,
       styles |-> <<>>,
       pages |-> << <<"index.html", "page">>, <<"src", "page">>,
                    <<"main.jsx", "main">> >>],
      [components |-> << <<"B.jsx", "b">>, <<"A.jsx", "a">> >>,
       styles |-> <<>>,
       pages |-> << <<"1", "one">>, <<"main.jsx", "main">> >>] }

\* The index a property key denotes when it is a canonical array index, -1
\* otherwise (the keys of the payloads above).
ArrayIndex(key) ==
    CASE key = "0" -> 0
      [] key = "1" -> 1
      [] key = "2" -> 2
      [] OTHER -> -1

ObjHas(obj, key) == \E i \in 1..Len(obj) : obj[i][1] = key

\* obj[key]
ObjGet(obj, key) ==
    obj[CHOOSE i \in 1..Len(obj) :
           /\ obj[i][1] = key
           /\ \A j \in 1..(i - 1) : obj[j][1] # key][2]

\* A nested object changed through a reference: the entry keeps its place.
ObjReplace(obj, key, value) ==
    LET i == CHOOSE k \in 1..Len(obj) : obj[k][1] = key
    IN SubSeq(obj, 1, i - 1) \o << <<key, value>> >>
          \o SubSeq(obj, i + 1, Len(obj))

\* obj[key] = value: an existing property keeps its place; a new one goes
\* after the existing ones, except that array indices come first, in
\* ascending order.
ObjSet(obj, key, value) ==
    IF ObjHas(obj, key) THEN ObjReplace(obj, key, value)
    ELSE IF ArrayIndex(key) >= 0
    THEN LET n == Cardinality({i \in 1..Len(obj) :
                      /\ ArrayIndex(obj[i][1]) >= 0
                      /\ ArrayIndex(obj[i][1]) < ArrayIndex(key)})
         IN SubSeq(obj, 1, n) \o << <<key, value>> >>
               \o SubSeq(obj, n + 1, Len(obj))
    ELSE Append(obj, <<key, value>>)

\* appSchema.src.directory.<reserved>.directory[file] = {file: {contents}}
AssignReserved(appSchema, reserved, file, code) ==
    LET src == ObjGet(appSchema, "src")
        dir == ObjGet(src.directory, reserved)
        dir2 == Directory(ObjSet(dir.directory, file, File(code)))
        src2 == Directory(ObjReplace(src.directory, reserved, dir2))
    IN ObjReplace(appSchema, "src", src2)

\* appSchema.src.directory[file] = {file: {contents}}
AssignPage_atRoot(appSchema, file, code) ==
    ObjSet(appSchema, file, File(code))

AssignPage(appSchema, file, code) ==
    LET src == ObjGet(appSchema, "src")
        src2 == Directory(ObjSet(src.directory, file, File(code)))
    IN ObjReplace(appSchema, "src", src2)

\* for (const [file, code] of Object.entries(section)) <assignment>
RECURSIVE AssignAll(_, _, _)
AssignAll(appSchema, section, entries) ==
    IF Len(entries) = 0 THEN appSchema
    ELSE LET file == Head(entries)[1]
             code == Head(entries)[2]
             next == IF section = "pages"
                     THEN AssignPage(appSchema, file, code)
                     ELSE AssignReserved(appSchema, section, file, code)
         IN AssignAll(next, section, Tail(entries))

\* appSchema.src.directory.<reserved> has a directory property to assign
\* into.
ReservedIsDirectory(appSchema, reserved) ==
    LET src == ObjGet(appSchema, "src")
    IN /\ ObjHas(src.directory, reserved)
       /\ "directory" \in DOMAIN ObjGet(src.directory, reserved)

\* The sections the three `if (appFiles?.<section>)` let through.
MergedSections(appFiles) == Sections \cap DOMAIN appFiles

\* The body of buildAppHierarchy after the skeleton is created: components,
\* then styles, then pages.
mergeInto(appSchema, appFiles) ==
    LET merged == MergedSections(appFiles)
        a == IF "components" \in merged
             THEN AssignAll(appSchema, "components", appFiles.components)
             ELSE appSchema
        b == IF "styles" \in merged
             THEN AssignAll(a, "styles", appFiles.styles)
             ELSE a
    IN IF "pages" \in merged
       THEN AssignAll(b, "pages", appFiles.pages)
       ELSE b

\* The assignments of the components and styles loops throw a TypeError
\* when src.directory.<reserved>.directory is undefined and the section has
\* an entry to assign.  Neither loop changes whether the other's reserved
\* entry is a directory, and both run before the pages loop.
mergeThrows(appSchema, appFiles) ==
    \E reserved \in {"components", "styles"} \cap MergedSections(appFiles) :
       /\ Len(appFiles[reserved]) > 0
       /\ ~ReservedIsDirectory(appSchema, reserved)

buildAppHierarchy(appFiles) == mergeInto(getAppSchema, appFiles)

\* A generated project: the skeleton with one component, one style, one page.
GeneratedTree ==
    << <<"package.json", File("package.json contents")>>,
       <<"vite.config.js", File("vite.config.js contents")>>,
       <<"index.html", File("index.html contents")>>,
       <<"src", Directory(<<
            <<"components", Directory(<< <<"Nav.jsx", File("nav")>> >>)>>,
            <<"styles", Directory(<< <<"index.css", File("css")>> >>)>>,
            <<"main.jsx", File("main")>> >>)>> >>

\* The payloads whose generated tree a client sends back for export.
ExportedPayloads ==
    { FullPayload,
      [components |-> << <<"B.jsx", "b">>, <<"A.jsx", "a">> >>,
       styles |-> <<>>,
       pages |-> << <<"1", "one">>, <<"main.jsx", "main">> >>] }

\* The project trees a client may send as projectData: arbitrary ones, and
\* trees received from a generation.
ExportTrees ==
    { <<>>,
      << <<"main.jsx", File("main")>> >>,
      << <<"a.txt", File("a")>>, <<"b.txt", File("b")>> >>,
      << <<"src", Directory(<< <<"main.jsx", File("main")>> >>)>>,
         <<"index.html", File("html")>> >>,
      << <<"a.txt", File("a")>>, <<"junk", JsString("x")>>,
         <<"nul", JsNull>>, <<"odd", JsPlainObject>>,
         <<"b.txt", File("b")>> >>,
      getAppSchema,
      GeneratedTree }
    \cup { buildAppHierarchy(appFiles) : appFiles \in ExportedPayloads }

RepoNames == {"repo-a", "repo-b"}
Tokens == {"", "gho_token"}

\* req.body of POST /api/github/export; a missing projectData is a missing
\* key; a projectData that is no object is the empty string or null.
ExportBodies(tree) ==
    { [token |-> t, repoName |-> r, projectData |-> JsObject(tree)] :
          t \in Tokens, r \in RepoNames \cup {""} }
    \cup { [token |-> t, repoName |-> r] : t \in Tokens, r \in RepoNames }
    \cup { [token |-> "gho_token", repoName |-> r, projectData |-> v] :
              r \in RepoNames, v \in {JsString(""), JsNull} }

\* req.body.projectData is an object: its entries are the project tree.
HasProject(body) ==
    /\ "projectData" \in DOMAIN body
    /\ "object" \in DOMAIN body.projectData

\* Object.entries(projectData) of a request that carries a project
ProjectEntries(body) ==
    IF HasProject(body) THEN body.projectData.object ELSE <<>>

(***************************************************************************)
(* The repository walk.                                                    *)
(***************************************************************************)
ReadmePath == "README.md"

\* const fullPath = currentPath ? `${currentPath}/${key}` : key;
fullPath(currentPath, key) ==
    IF currentPath # "" THEN currentPath \o "/" \o key ELSE key

\* The createOrUpdateFile call for a File entry (lines 652-661).
FileCall(path, value) ==
    [site |-> "file", path |-> path, content |-> value.file.contents]

\* The createOrUpdateFile call after the loop (lines 677-701).
ReadmeCall ==
    [site |-> "readme", path |-> ReadmePath, content |-> "readme contents"]

RECURSIVE createFiles(_, _)
RECURSIVE createFilesLoop(_, _)
RECURSIVE createFilesLoop_stopAtInvalid(_, _)

createFilesLoop_stopAtInvalid(currentPath, entries) ==
    IF Len(entries) = 0 THEN <<>>
    ELSE LET key == Head(entries)[1]
             value == Head(entries)[2]
             path == fullPath(currentPath, key)
         IN IF IsObject(value) /\ "file" \in DOMAIN value
            THEN <<FileCall(path, value)>>
                    \o createFilesLoop_stopAtInvalid(currentPath,
                                                     Tail(entries))
            ELSE IF IsObject(value) /\ "directory" \in DOMAIN value
            THEN createFiles(path, value.directory)
                    \o createFilesLoop_stopAtInvalid(currentPath,
                                                     Tail(entries))
            ELSE <<>>

\* The for loop of createFiles over Object.entries(directoryObj): the
\* createOrUpdateFile calls it issues, in order, when none of them throws.
createFilesLoop(currentPath, entries) ==
    IF Len(entries) = 0 THEN <<>>
    ELSE LET key == Head(entries)[1]
             value == Head(entries)[2]
             path == fullPath(currentPath, key)
             here == IF ~IsObject(value) THEN <<>>
                     ELSE IF "file" \in DOMAIN value
                          THEN <<FileCall(path, value)>>
                     ELSE IF "directory" \in DOMAIN value
                          THEN createFiles(path, value.directory)
                     ELSE <<>>
         IN here \o createFilesLoop(currentPath, Tail(entries))

\* createFiles(octokit, owner, repo, currentPath, directoryObj): the loop,
\* then the README write of this invocation.
createFiles(currentPath, directoryObj) ==
    createFilesLoop(currentPath, directoryObj) \o <<ReadmeCall>>

\* The File leaves of a tree, as paths, in walk order.
RECURSIVE Leaves(_, _)
Leaves(currentPath, entries) ==
    IF Len(entries) = 0 THEN <<>>
    ELSE LET key == Head(entries)[1]
             value == Head(entries)[2]
             path == fullPath(currentPath, key)
             here == IF ~IsObject(value) THEN <<>>
                     ELSE IF "file" \in DOMAIN value THEN <<path>>
                     ELSE IF "directory" \in DOMAIN value
                          THEN Leaves(path, value.directory)
                     ELSE <<>>
         IN here \o Leaves(currentPath, Tail(entries))

(***************************************************************************)
(* The hosting provider (environment).  A repository holds files by path.  *)
(***************************************************************************)
NoRepo == [exists |-> FALSE, files |-> <<>>]
NoSha == <<>>
Sha(content) == <<"sha", content>>
FaultStatuses == {401, 422, 500}

\* Buffer.from(content).toString("base64"), and the provider's decoding
Base64(content) == <<"base64", content>>
Base64Decode(encoded) == encoded[2]

\* repos.getContent: the status the provider answers with
ProviderGetContent(files, path) ==
    IF path \in DOMAIN files THEN 200 ELSE 404

\* repos.createOrUpdateFileContents: the status the provider answers with
ProviderPutContent(files, path, sha) ==
    IF path \in DOMAIN files
    THEN IF sha = NoSha THEN 422
         ELSE IF sha # Sha(files[path]) THEN 409 ELSE 200
    ELSE 200

(***************************************************************************)
(* POST /api/github/export                                                 *)
(***************************************************************************)
NoResponse == [none |-> TRUE]
AuthExpiredMessage == "GitHub authentication expired. Please reconnect."
NameConflictMessage == "Repository name already exists. Please try again."
ExportFailedMessage == "Failed to export to GitHub"

\* The catch block's choice of message; status 0 is an error that carries no
\* provider response (the TypeError of projectData.src).
errorMessage_no401(status) ==
    IF status = 422 THEN NameConflictMessage ELSE ExportFailedMessage

errorMessage(status) ==
    IF status = 401 THEN AuthExpiredMessage
    ELSE IF status = 422 THEN NameConflictMessage
    ELSE ExportFailedMessage

\* res.status(500).json({ success: false, error: errorMessage })
CatchResponse(status) ==
    [status |-> 500, success |-> FALSE, error |-> errorMessage(status)]

MissingParametersResponse ==
    [status |-> 400, error |-> "Missing required parameters"]

SuccessResponse(repoName) ==
    [status |-> 200, success |-> TRUE, repoUrl |-> repoName,
     message |-> "Project exported successfully to GitHub"]

\* The inner catch of createOrUpdateFile: what a getContent status leads to.
LookupOutcome_swallow(status) ==
    IF status = 200 THEN "found" ELSE "absent"

LookupOutcome(status) ==
    IF status = 200 THEN "found"
    ELSE IF status = 404 THEN "absent"
    ELSE "throw"

\* The outer catch of createOrUpdateFile rethrows every rejected write.
WriteThrows_swallowFile(site, status) == status # 200 /\ site # "file"

WriteThrows(site, status) == status # 200

\* The 100 ms timer is awaited after the createOrUpdateFile call of the
\* file branch of the loop, not after the README write.
DelayAfter_never(site) == FALSE

DelayAfter(site) == site = "file"

\* The walk of the request being handled.
Plan == createFiles("", ProjectEntries(exBody))

Call(op, site, path, status, withSha) ==
    [op |-> op, site |-> site, path |-> path, status |-> status,
     sha |-> withSha]

\* A call the handler's try block did not survive.
FailedCall(c) ==
    /\ c.op # "delay"
    /\ c.status # 200
    /\ ~(c.op = "getContent" /\ c.status = 404)

OkPut(c) == c.op = "put" /\ c.status = 200

\* The previous request's walk aborted after at least one file was written.
WalkAborted ==
    /\ Len(exCalls) > 0
    /\ exCalls[Len(exCalls)].op \in {"getContent", "put"}
    /\ FailedCall(exCalls[Len(exCalls)])
    /\ \E i \in 1..Len(exCalls) : OkPut(exCalls[i]) /\ exCalls[i].site = "file"

NoPrev == [body |-> [token |-> "", repoName |-> ""], walkAborted |-> FALSE]

\* The throw reaches the handler's catch, which responds.
Fail(status) ==
    /\ exPc' = "done"
    /\ exResp' = CatchResponse(status)

ExportRequest(body) ==
    /\ exPc \in {"idle", "done"}
    /\ exRuns < MaxExports
    /\ exRuns' = exRuns + 1
    /\ exBody' = body
    /\ exCalls' = <<>>
    /\ exFaults' = 0
    /\ exIdx' = 0
    /\ exSha' = NoSha
    /\ exPrev' = IF exPc = "done"
                 THEN [body |-> exBody, walkAborted |-> WalkAborted]
                 ELSE exPrev
    /\ IF \/ "projectData" \notin DOMAIN body
          \/ "null" \in DOMAIN body.projectData
       THEN Fail(0)       \* console.log(projectData.src) throws a TypeError
       ELSE IF \/ body.token = ""
               \/ Falsy(body.projectData)
               \/ body.repoName = ""
       THEN exPc' = "done" /\ exResp' = MissingParametersResponse
       ELSE exPc' = "auth" /\ exResp' = NoResponse
    /\ UNCHANGED <<projectTree, remote>>
    /\ UNCHANGED <<authVars, genVars, clVars>>

\* await octokit.rest.users.getAuthenticated()
GetAuthenticated ==
    /\ exPc = "auth"
    /\ \E st \in {200} \cup FaultStatuses :
          /\ exCalls' = Append(exCalls,
                               Call("getAuthenticated", "", "", st, FALSE))
          /\ exFaults' = exFaults + (IF st = 200 THEN 0 ELSE 1)
          /\ IF st = 200
             THEN exPc' = "create" /\ exResp' = exResp
             ELSE Fail(st)
    /\ UNCHANGED <<projectTree, exBody, exIdx, exSha, exRuns, exPrev, remote>>
    /\ UNCHANGED <<authVars, genVars, clVars>>

\* await octokit.rest.repos.createForAuthenticatedUser({ name: repoName })
CreateRepo ==
    /\ exPc = "create"
    /\ \E fault \in {0} \cup FaultStatuses :
          LET name == exBody.repoName
              st == IF fault # 0 THEN fault
                    ELSE IF remote[name].exists THEN 422 ELSE 200
          IN /\ exCalls' = Append(exCalls,
                                  Call("createRepo", "", name, st, FALSE))
             /\ exFaults' = exFaults + (IF fault = 0 THEN 0 ELSE 1)
             /\ IF st = 200
                THEN /\ remote' = [remote EXCEPT ![name].exists = TRUE]
                     /\ exPc' = "lookup"
                     /\ exIdx' = 1
                     /\ exResp' = exResp
                ELSE /\ Fail(st)
                     /\ UNCHANGED <<remote, exIdx>>
    /\ UNCHANGED <<projectTree, exBody, exSha, exRuns, exPrev>>
    /\ UNCHANGED <<authVars, genVars, clVars>>

\* createOrUpdateFile, first half: await octokit.rest.repos.getContent(...)
GetContent ==
    /\ exPc = "lookup"
    /\ \E fault \in {0} \cup FaultStatuses :
          LET call == Plan[exIdx]
              files == remote[exBody.repoName].files
              st == IF fault # 0 THEN fault
                    ELSE ProviderGetContent(files, call.path)
          IN /\ exCalls' = Append(exCalls,
                             Call("getContent", call.site, call.path, st, FALSE))
             /\ exFaults' = exFaults + (IF fault = 0 THEN 0 ELSE 1)
             /\ IF LookupOutcome(st) = "throw"
                THEN Fail(st) /\ exSha' = exSha
                ELSE /\ exSha' = IF LookupOutcome(st) = "found"
                                 THEN Sha(files[call.path]) ELSE NoSha
                     /\ exPc' = "write"
                     /\ exResp' = exResp
    /\ UNCHANGED <<projectTree, exBody, exIdx, exRuns, exPrev, remote>>
    /\ UNCHANGED <<authVars, genVars, clVars>>

\* createOrUpdateFile, second half:
\* await octokit.rest.repos.createOrUpdateFileContents(params); then, in
\* createFiles, either the inter-file delay or the return to the caller.
PutContent ==
    /\ exPc = "write"
    /\ \E fault \in {0} \cup FaultStatuses :
          LET call == Plan[exIdx]
              name == exBody.repoName
              files == remote[name].files
              st == IF fault # 0 THEN fault
                    ELSE ProviderPutContent(files, call.path, exSha)
              written == (call.path :> Base64Decode(Base64(call.content)))
                         @@ files
          IN /\ exCalls' = Append(exCalls,
                      Call("put", call.site, call.path, st, exSha # NoSha))
             /\ exFaults' = exFaults + (IF fault = 0 THEN 0 ELSE 1)
             /\ remote' = IF st = 200
                          THEN [remote EXCEPT ![name].files = written]
                          ELSE remote
             /\ IF WriteThrows(call.site, st)
                THEN Fail(st) /\ exIdx' = exIdx
                ELSE IF DelayAfter(call.site)
                THEN exPc' = "delay" /\ exResp' = exResp /\ exIdx' = exIdx
                ELSE IF exIdx = Len(Plan)
                THEN /\ exPc' = "done"
                     /\ exResp' = SuccessResponse(name)
                     /\ exIdx' = exIdx
                ELSE exPc' = "lookup" /\ exResp' = exResp /\ exIdx' = exIdx + 1
    /\ UNCHANGED <<projectTree, exBody, exSha, exRuns, exPrev>>
    /\ UNCHANGED <<authVars, genVars, clVars>>

\* await new Promise((resolve) => setTimeout(resolve, 100))
Delay ==
    /\ exPc = "delay"
    /\ exCalls' = Append(exCalls, Call("delay", "file", Plan[exIdx].path, 200, FALSE))
    /\ exPc' = "lookup"
    /\ exIdx' = exIdx + 1
    /\ UNCHANGED <<projectTree, exBody, exSha, exResp, exRuns, exFaults,
                   exPrev, remote>>
    /\ UNCHANGED <<authVars, genVars, clVars>>

ExportInit ==
    /\ exPc = "idle"
    /\ exBody = NoPrev.body
    /\ exIdx = 0
    /\ exSha = NoSha
    /\ exCalls = <<>>
    /\ exResp = NoResponse
    /\ exRuns = 0
    /\ exFaults = 0
    /\ exPrev = NoPrev
    /\ remote = [r \in RepoNames |-> NoRepo]

ExportNext ==
    \/ \E body \in ExportBodies(projectTree) : ExportRequest(body)
    \/ GetAuthenticated
    \/ CreateRepo
    \/ GetContent
    \/ PutContent
    \/ Delay

(***************************************************************************)
(* Properties of the export pipeline, stated for SpecExport.               *)
(***************************************************************************)
IsSuccess(resp) == "success" \in DOMAIN resp /\ resp.success = TRUE
IsFailure(resp) == "success" \in DOMAIN resp /\ resp.success = FALSE

CallIdx == 1..Len(exCalls)
LeafPaths == Leaves("", ProjectEntries(exBody))
LeafSet == {LeafPaths[k] : k \in 1..Len(LeafPaths)}
FilePutIdx == {i \in CallIdx : exCalls[i].op = "put" /\ exCalls[i].site = "file"}
ReadmePutIdx ==
    {i \in CallIdx : exCalls[i].op = "put" /\ exCalls[i].path = ReadmePath}

\* C1: a successful export of a tree with N File leaves issues exactly N
\* project-file writes and exactly one README.md write, and the README.md
\* write comes after every project-file write.
C1_OneReadmeWrittenLast ==
    (exPc = "done" /\ IsSuccess(exResp)) =>
        /\ Cardinality(FilePutIdx) = Len(LeafPaths)
        /\ Cardinality(ReadmePutIdx) = 1
        /\ \A i \in FilePutIdx, j \in ReadmePutIdx : i < j

\* C2: once a createOrUpdateFile call for a project file has failed (its
\* lookup or its write was rejected), that call is the last provider call of
\* the request and the request has been answered with success:false.
C2_FileFailureAbortsWalk ==
    \A i \in CallIdx :
        (exCalls[i].site = "file" /\ FailedCall(exCalls[i])) =>
            /\ i = Len(exCalls)
            /\ exPc = "done"
            /\ IsFailure(exResp)

\* C2 witness: the write of a file failed after an earlier file was written
\* and with later files still unwritten.
C2_Witness ==
    /\ exPc = "done"
    /\ Len(exCalls) > 0
    /\ exCalls[Len(exCalls)].op = "put"
    /\ exCalls[Len(exCalls)].site = "file"
    /\ FailedCall(exCalls[Len(exCalls)])
    /\ \E i \in FilePutIdx : OkPut(exCalls[i])
    /\ Cardinality(FilePutIdx) < Len(LeafPaths)

\* C3: whenever a README.md write is attempted, every File leaf of the
\* exported tree has already been written successfully.
C3_ReadmeOnlyAfterAllFiles ==
    \A i \in ReadmePutIdx :
        \A leaf \in LeafSet :
            \E j \in 1..(i - 1) : OkPut(exCalls[j]) /\ exCalls[j].path = leaf

\* The repository named in the request holds every file of the tree, with
\* its contents, and the README.
RemoteComplete ==
    LET files == remote[exBody.repoName].files
    IN /\ ReadmePath \in DOMAIN files
       /\ \A k \in 1..Len(Plan) :
             Plan[k].site = "file" =>
                 /\ Plan[k].path \in DOMAIN files
                 /\ files[Plan[k].path] = Plan[k].content

\* C4: a re-invocation of an export whose walk aborted part-way, with the
\* same body and no provider rejection injected, reaches the file walk and
\* ends with the repository complete.
C4_ReExportRecovers ==
    (exPc = "done" /\ exPrev.walkAborted /\ exPrev.body = exBody
       /\ exFaults = 0) =>
        /\ \E i \in CallIdx : exCalls[i].op = "getContent"
        /\ IsSuccess(exResp)
        /\ RemoteComplete

\* Identity resolution, repository creation, every project-file write and
\* the final README write succeeded.
AllStepsOk ==
    /\ HasProject(exBody)
    /\ \E i \in CallIdx :
          exCalls[i].op = "getAuthenticated" /\ exCalls[i].status = 200
    /\ \E i \in CallIdx :
          exCalls[i].op = "createRepo" /\ exCalls[i].status = 200
    /\ \A leaf \in LeafSet :
          \E i \in CallIdx : OkPut(exCalls[i]) /\ exCalls[i].path = leaf
    /\ Len(exCalls) > 0
    /\ OkPut(exCalls[Len(exCalls)])
    /\ exCalls[Len(exCalls)].site = "readme"
    /\ \A i \in CallIdx : ~FailedCall(exCalls[i])

\* C5: a finished export request is answered success:true, with the
\* repoUrl, exactly when every step succeeded, and success:false in every
\* other run.
C5_SuccessOrSuccessFalse ==
    exPc = "done" =>
        /\ IsSuccess(exResp) <=> AllStepsOk
        /\ IsSuccess(exResp) => exResp.repoUrl = exBody.repoName
        /\ ~IsSuccess(exResp) => IsFailure(exResp)

\* C6: the repository is created only after the identity was resolved, and
\* at most once; lookups and writes are issued only after the repository was
\* created; a 401 at identity resolution is answered with the auth-expired
\* message and no creation; a 422 at creation ends the request with the
\* name-conflict message.
C6_StepOrder ==
    /\ \A i \in CallIdx :
          exCalls[i].op = "createRepo" =>
              /\ \E j \in 1..(i - 1) : exCalls[j].op = "getAuthenticated"
                                       /\ exCalls[j].status = 200
              /\ \A j \in CallIdx : exCalls[j].op = "createRepo" => j = i
    /\ \A i \in CallIdx :
          exCalls[i].op \in {"getContent", "put", "delay"} =>
              \E j \in 1..(i - 1) : exCalls[j].op = "createRepo"
                                    /\ exCalls[j].status = 200
    /\ \A i \in CallIdx :
          (exCalls[i].op = "getAuthenticated" /\ exCalls[i].status = 401) =>
              /\ i = Len(exCalls)
              /\ exPc = "done"
              /\ IsFailure(exResp)
              /\ exResp.error = AuthExpiredMessage
    /\ \A i \in CallIdx :
          (exCalls[i].op = "createRepo" /\ exCalls[i].status = 422) =>
              /\ i = Len(exCalls)
              /\ exPc = "done"
              /\ IsFailure(exResp)
              /\ exResp.error = NameConflictMessage

\* C6 witness: the provider rejected the creation of a repository whose name
\* already exists.
C6_Witness ==
    /\ exPc = "done"
    /\ exFaults = 0
    /\ Len(exCalls) = 2
    /\ exCalls[2].op = "createRepo"
    /\ exCalls[2].status = 422
    /\ remote[exBody.repoName].exists

\* C22: an export request that lacks token, projectData or repoName is
\* answered with the 4xx missing-parameters payload, and no provider call
\* is made for it.
MissingParameter(body) ==
    \/ "projectData" \notin DOMAIN body
    \/ Falsy(body.projectData)
    \/ body.token = ""
    \/ body.repoName = ""

C22_MissingParametersRejected ==
    (exPc = "done" /\ MissingParameter(exBody)) =>
        /\ exResp.status \in 400..499
        /\ exResp.error = "Missing required parameters"
        /\ exCalls = <<>>

\* C25: a successful export of a tree built from a payload writes the
\* project files in this order: package.json, vite.config.js, index.html,
\* the components under src/components in payload order, the styles under
\* src/styles in payload order, the pages under src in payload order.
EntriesOf(appFiles, section) ==
    IF section \in DOMAIN appFiles THEN appFiles[section] ELSE <<>>

PathsUnder(dir, entries) ==
    [k \in 1..Len(entries) |-> fullPath(dir, entries[k][1])]

ExpectedOrder(appFiles) ==
    <<"package.json", "vite.config.js", "index.html">>
       \o PathsUnder("src/components", EntriesOf(appFiles, "components"))
       \o PathsUnder("src/styles", EntriesOf(appFiles, "styles"))
       \o PathsUnder("src", EntriesOf(appFiles, "pages"))

IsFilePut(c) == c.op = "put" /\ c.site = "file"

\* The paths of the project-file writes of the request, in call order.
FilePutPaths ==
    LET puts == SelectSeq(exCalls, IsFilePut)
    IN [k \in 1..Len(puts) |-> puts[k].path]

C25_WalkInPayloadOrder ==
    (exPc = "done" /\ IsSuccess(exResp)) =>
        \A appFiles \in Payloads :
           ProjectEntries(exBody) = buildAppHierarchy(appFiles)
              => FilePutPaths = ExpectedOrder(appFiles)

\* C26: every write call directly follows a lookup of its own path that
\* was answered 200 or 404, and carries a sha exactly when the lookup was
\* answered 200, which it is only for a path this export has written; a
\* lookup answered 200 or 404 is followed by the write of its path and by
\* nothing else; a lookup rejected otherwise is the last call of the
\* request, which is answered with a failure.
LookupOk(c) == c.op = "getContent" /\ c.status \in {200, 404}

C26_UpsertAfterOneLookup ==
    \A i \in CallIdx :
       LET c == exCalls[i]
       IN /\ c.op = "put" =>
                /\ i > 1
                /\ LookupOk(exCalls[i - 1])
                /\ exCalls[i - 1].path = c.path
                /\ c.sha = (exCalls[i - 1].status = 200)
          /\ (c.op = "getContent" /\ c.status = 200) =>
                \E j \in 1..(i - 1) :
                   OkPut(exCalls[j]) /\ exCalls[j].path = c.path
          /\ LookupOk(c) =>
                IF i < Len(exCalls)
                THEN exCalls[i + 1].op = "put" /\ exCalls[i + 1].path = c.path
                ELSE exPc = "write"
          /\ (c.op = "getContent" /\ ~LookupOk(c)) =>
                /\ i = Len(exCalls)
                /\ exPc = "done"
                /\ IsFailure(exResp)

\* C26 witness: in one export a path was created without a sha after a 404
\* lookup and later updated with the sha its lookup found.
C26_Witness ==
    \E i, j \in CallIdx :
       /\ i < j
       /\ OkPut(exCalls[i]) /\ ~exCalls[i].sha
       /\ OkPut(exCalls[j]) /\ exCalls[j].sha
       /\ exCalls[i].path = exCalls[j].path
       /\ exCalls[i - 1].status = 404
       /\ exCalls[j - 1].status = 200

\* C27: the calls of an export form one sequence, each issued when the one
\* before it was answered; the successful write of a project file is
\* followed by the delay, and only then by the lookup of the next path; the
\* delay follows nothing but such a write.
C27_SequentialWithDelay ==
    /\ \A i \in CallIdx :
          LET c == exCalls[i]
          IN /\ (OkPut(c) /\ c.site = "file") =>
                   IF i < Len(exCalls)
                   THEN /\ exCalls[i + 1].op = "delay"
                        /\ exCalls[i + 1].path = c.path
                   ELSE exPc = "delay"
             /\ c.op = "delay" =>
                   /\ i > 1
                   /\ OkPut(exCalls[i - 1])
                   /\ exCalls[i - 1].site = "file"
                   /\ i < Len(exCalls) => exCalls[i + 1].op = "getContent"
             /\ (c.op = "getContent" /\ i > 1) =>
                   \/ exCalls[i - 1].op \in {"delay", "createRepo"}
                   \/ OkPut(exCalls[i - 1]) /\ exCalls[i - 1].site = "readme"
    /\ exPc = "delay" => Len(exCalls) > 0 /\ OkPut(exCalls[Len(exCalls)])

\* C27 witness: a successful export of two project files, with a delay
\* after each of the two writes.
C27_Witness ==
    /\ exPc = "done"
    /\ IsSuccess(exResp)
    /\ Cardinality({i \in CallIdx : exCalls[i].op = "delay"}) = 2
    /\ Cardinality({i \in CallIdx : exCalls[i].site = "file"
                                      /\ OkPut(exCalls[i])}) = 2

\* C28: a failed export reports the name conflict only when the creation of
\* the repository was rejected, and the expired authentication only when a
\* call was rejected with 401; a file write rejected with 422 is reported
\* with the generic export failure.
C28_CauseByStep ==
    (exPc = "done" /\ IsFailure(exResp)) =>
        LET last == exCalls[Len(exCalls)]
        IN /\ exResp.error = NameConflictMessage =>
                 Len(exCalls) > 0 /\ last.op = "createRepo"
           /\ exResp.error = AuthExpiredMessage =>
                 Len(exCalls) > 0 /\ last.status = 401
           /\ (Len(exCalls) > 0 /\ last.op = "put" /\ last.status = 422) =>
                 exResp.error = ExportFailedMessage

\* C36: no call of an export carries the path of an entry of projectData
\* that is neither a File nor a Directory node; a request with all
\* parameters none of whose calls was rejected is answered with success;
\* and a successful export has written every File entry, those after such
\* an entry included, in walk order.
NotANode(value) ==
    "file" \notin DOMAIN value /\ "directory" \notin DOMAIN value

RECURSIVE NonNodePaths(_, _)
NonNodePaths(currentPath, entries) ==
    IF Len(entries) = 0 THEN {}
    ELSE LET key == Head(entries)[1]
             value == Head(entries)[2]
             path == fullPath(currentPath, key)
             here == IF NotANode(value) THEN {path}
                     ELSE IF "directory" \in DOMAIN value
                          THEN NonNodePaths(path, value.directory)
                     ELSE {}
         IN here \cup NonNodePaths(currentPath, Tail(entries))

C36_NonNodesSkipped ==
    (exPc # "idle" /\ ~MissingParameter(exBody)) =>
        /\ \A i \in CallIdx :
              exCalls[i].path \notin NonNodePaths("", ProjectEntries(exBody))
        /\ (exPc = "done" /\ \A i \in CallIdx : ~FailedCall(exCalls[i]))
              => IsSuccess(exResp)
        /\ (exPc = "done" /\ IsSuccess(exResp))
              => FilePutPaths = Leaves("", ProjectEntries(exBody))

\* C36 witness: a successful export of a project with a string, a null and
\* an object without file or directory among its entries, and a file after
\* them.
C36_Witness ==
    /\ exPc = "done"
    /\ IsSuccess(exResp)
    /\ NonNodePaths("", ProjectEntries(exBody)) = {"junk", "nul", "odd"}
    /\ FilePutPaths = <<"a.txt", "b.txt">>

(***************************************************************************)
(* The OAuth session store.  State tokens come from                        *)
(* crypto.randomBytes(32): each initiate draws a token never drawn before  *)
(* (token n is the n-th one generated); 0 is a well-formed string that is  *)
(* never generated.  Access tokens are named after the callback request    *)
(* whose exchange returned them.                                           *)
(***************************************************************************)
TTL == 10 * 60 * 1000
\* The clock advances by a millisecond or by the whole TTL.
Deltas == {1, TTL}
\* The milliseconds that pass inside the initiate handler between its two
\* readings of the clock: Date.now() for the new session's timestamp, and
\* Date.now() in cleanupAuthSessions.
HandlerDeltas == {0, 1}
States == 1..MaxAuthSteps

\* The budget of the behaviour is not used up.
AuthBudget == issued + cbCount + ticks < MaxAuthSteps
NoStates == [s \in States |-> {}]

\* The state strings a request may carry: the tokens generated so far, and
\* a string that is never generated.
StateInputs == {0} \cup 1..issued

\* req.body of POST /api/github/auth/status
StatusBodies == { [state |-> s] : s \in StateInputs } \cup { [other |-> 0] }

\* req.query of GET /api/github/callback
CallbackQueries ==
    { [code |-> "code", state |-> s] : s \in StateInputs }
    \cup { [state |-> s] : s \in StateInputs }
    \cup { [code |-> "code"] }

NoAuthResponse == [op |-> "none"]

\* if (session.timestamp < tenMinutesAgo) this.githubAuthSessions.delete(state)
SweepRemoves_reversed(timestamp, time) == timestamp > time - TTL
SweepRemoves_atTTL(timestamp, time) == timestamp <= time - TTL

SweepRemoves(timestamp, time) == timestamp < time - TTL

\* cleanupAuthSessions(): the store after the sweep
cleanupAuthSessions(sessions, time) ==
    [s \in {k \in DOMAIN sessions : ~SweepRemoves(sessions[k].timestamp, time)}
        |-> sessions[s]]

\* if (Date.now() - session.timestamp > 10 * 60 * 1000)
IsExpired_atTTL(timestamp, time) == time - timestamp >= TTL
IsExpired_never(timestamp, time) == FALSE

IsExpired(timestamp, time) == time - timestamp > TTL

\* The keys of the store whose session object the callback's `session`
\* variable refers to: the entry read at line 443, if it is still stored.
AttachTargets_all(sessions, state) == DOMAIN sessions
AttachTargets_none(sessions, state) == {}

AttachTargets(sessions, state) ==
    IF state \in DOMAIN sessions THEN {state} ELSE {}

\* const session = this.githubAuthSessions.get(state); if (!session)
SessionMissing_never(sessions, state) == FALSE

SessionMissing(sessions, state) == state \notin DOMAIN sessions

\* The answer of the status handler to a state that is not a key of the
\* store.
NotFoundResponse_pending(state) ==
    [op |-> "status", status |-> 200, state |-> state,
     authenticated |-> FALSE]

NotFoundResponse(state) ==
    [op |-> "status", status |-> 404, state |-> state,
     authenticated |-> FALSE, error |-> "Session not found"]

\* if (!this.GITHUB_CLIENT_ID): an unset variable is the empty string here
Configured_always(clientId) == TRUE

Configured(clientId) == clientId # ""

\* POST /api/github/auth.  `now` is the clock read for the new session's
\* timestamp; the sweep reads the clock again, d milliseconds later.
Initiate(d) ==
    /\ UNCHANGED <<exVars, genVars, clVars>>
    /\ IF ~Configured(GITHUB_CLIENT_ID)
       THEN /\ authResp' = [op |-> "auth", status |-> 500,
                            error |-> "GitHub OAuth not configured"]
            /\ UNCHANGED <<GITHUB_CLIENT_ID, githubAuthSessions, now, ticks,
                           issued, callbacks, cbCount, granted, created>>
       ELSE /\ AuthBudget
            /\ LET state == issued + 1
                   stored == (state :> [timestamp |-> now])
                             @@ githubAuthSessions
               IN /\ githubAuthSessions' =
                       cleanupAuthSessions(stored, now + d)
                  /\ now' = now + d
                  /\ issued' = state
                  /\ created' = [created EXCEPT ![state] = now]
                  /\ authResp' = [op |-> "auth", status |-> 200,
                                  state |-> state]
            /\ UNCHANGED <<GITHUB_CLIENT_ID, ticks, callbacks, cbCount,
                           granted>>

\* GET /api/github/callback, up to the await of the token exchange
CallbackRequest(query) ==
    /\ IF "code" \notin DOMAIN query \/ "state" \notin DOMAIN query
       THEN /\ authResp' = [op |-> "callback", status |-> 400,
                            page |-> "Invalid callback parameters"]
            /\ UNCHANGED <<callbacks, cbCount>>
       ELSE IF SessionMissing(githubAuthSessions, query.state)
       THEN /\ authResp' = [op |-> "callback", status |-> 400,
                            state |-> query.state,
                            page |-> "Invalid or expired authentication session"]
            /\ UNCHANGED <<callbacks, cbCount>>
       ELSE /\ AuthBudget
            /\ cbCount' = cbCount + 1
            /\ callbacks' = callbacks \cup
                              {[id |-> cbCount + 1, state |-> query.state,
                                pc |-> "fetch"]}
            /\ UNCHANGED authResp
    /\ UNCHANGED <<GITHUB_CLIENT_ID, githubAuthSessions, now, ticks, issued,
                   granted, created>>
    /\ UNCHANGED <<exVars, genVars, clVars>>

\* The catch block of the callback handler: the failure page is sent and
\* nothing else is touched.
CallbackFailure_deletes(cb) ==
    /\ authResp' = [op |-> "callback", status |-> 500, state |-> cb.state,
                    page |-> "GitHub Connection Failed"]
    /\ githubAuthSessions' =
         [s \in DOMAIN githubAuthSessions \ {cb.state}
             |-> githubAuthSessions[s]]
    /\ UNCHANGED granted

CallbackFailure_clearsToken(cb) ==
    /\ authResp' = [op |-> "callback", status |-> 500, state |-> cb.state,
                    page |-> "GitHub Connection Failed"]
    /\ githubAuthSessions' =
         [s \in DOMAIN githubAuthSessions |->
            IF s = cb.state
            THEN [timestamp |-> githubAuthSessions[s].timestamp]
            ELSE githubAuthSessions[s]]
    /\ UNCHANGED granted

CallbackFailure(cb) ==
    /\ authResp' = [op |-> "callback", status |-> 500, state |-> cb.state,
                    page |-> "GitHub Connection Failed"]
    /\ UNCHANGED <<granted, githubAuthSessions>>

\* GET /api/github/callback, from the settling of the token exchange's
\* fetch to the await of tokenResponse.json(): a rejected fetch goes to the
\* catch block; otherwise nothing is written or sent.
CallbackFetched(cb, outcome) ==
    /\ cb \in callbacks
    /\ cb.pc = "fetch"
    /\ IF outcome = "throw"
       THEN /\ callbacks' = callbacks \ {cb}
            /\ CallbackFailure(cb)
       ELSE /\ callbacks' = (callbacks \ {cb}) \cup {[cb EXCEPT !.pc = "json"]}
            /\ UNCHANGED <<githubAuthSessions, granted, authResp>>
    /\ UNCHANGED <<GITHUB_CLIENT_ID, now, ticks, issued, cbCount, created>>
    /\ UNCHANGED <<exVars, genVars, clVars>>

\* GET /api/github/callback, from the settling of tokenResponse.json() to
\* the page
CallbackExchange(cb, outcome) ==
    /\ cb \in callbacks
    /\ cb.pc = "json"
    /\ callbacks' = callbacks \ {cb}
    /\ IF outcome = "access_token"
       THEN /\ granted' = [granted EXCEPT ![cb.state] = @ \cup {cb.id}]
            /\ githubAuthSessions' =
                 [s \in DOMAIN githubAuthSessions |->
                    IF s \in AttachTargets(githubAuthSessions, cb.state)
                    THEN [timestamp |-> githubAuthSessions[s].timestamp,
                          token |-> cb.id]
                    ELSE githubAuthSessions[s]]
            /\ authResp' = [op |-> "callback", status |-> 200,
                            state |-> cb.state, token |-> cb.id,
                            page |-> "GitHub Connected"]
       ELSE CallbackFailure(cb)
    /\ UNCHANGED <<GITHUB_CLIENT_ID, now, ticks, issued, cbCount, created>>
    /\ UNCHANGED <<exVars, genVars, clVars>>

\* The answer of the status handler for a stored session that is not
\* expired: the token when there is one; the store is only read.
StatusAnswer_refresh(state, session) ==
    /\ githubAuthSessions' =
         [githubAuthSessions EXCEPT ![state].timestamp = now]
    /\ authResp' =
         IF "token" \in DOMAIN session
         THEN [op |-> "status", status |-> 200, state |-> state,
               authenticated |-> TRUE, token |-> session.token]
         ELSE [op |-> "status", status |-> 200, state |-> state,
               authenticated |-> FALSE]

StatusAnswer(state, session) ==
    /\ UNCHANGED githubAuthSessions
    /\ authResp' =
         IF "token" \in DOMAIN session
         THEN [op |-> "status", status |-> 200, state |-> state,
               authenticated |-> TRUE, token |-> session.token]
         ELSE [op |-> "status", status |-> 200, state |-> state,
               authenticated |-> FALSE]

\* POST /api/github/auth/status
Status(body) ==
    /\ IF "state" \notin DOMAIN body
       THEN /\ authResp' = [op |-> "status", status |-> 400,
                            error |-> "Invalid state parameter"]
            /\ UNCHANGED githubAuthSessions
       ELSE IF body.state \notin DOMAIN githubAuthSessions
       THEN /\ authResp' = NotFoundResponse(body.state)
            /\ UNCHANGED githubAuthSessions
       ELSE LET session == githubAuthSessions[body.state]
            IN IF IsExpired(session.timestamp, now)
               THEN /\ githubAuthSessions' =
                         [s \in DOMAIN githubAuthSessions \ {body.state}
                             |-> githubAuthSessions[s]]
                    /\ authResp' = [op |-> "status", status |-> 410,
                                    state |-> body.state,
                                    authenticated |-> FALSE,
                                    error |-> "Session expired"]
               ELSE StatusAnswer(body.state, session)
    /\ UNCHANGED <<GITHUB_CLIENT_ID, now, ticks, issued, callbacks, cbCount,
                   granted, created>>
    /\ UNCHANGED <<exVars, genVars, clVars>>

\* Time passes.
Tick(d) ==
    /\ AuthBudget
    /\ ticks' = ticks + 1
    /\ now' = now + d
    /\ UNCHANGED <<GITHUB_CLIENT_ID, githubAuthSessions, issued, callbacks,
                   cbCount, granted, created, authResp>>
    /\ UNCHANGED <<exVars, genVars, clVars>>

AuthInit ==
    /\ githubAuthSessions = <<>>
    /\ now = 0
    /\ ticks = 0
    /\ issued = 0
    /\ callbacks = {}
    /\ cbCount = 0
    /\ granted = NoStates
    /\ created = [s \in States |-> -1]
    /\ authResp = NoAuthResponse

AuthNext ==
    \/ \E d \in HandlerDeltas : Initiate(d)
    \/ \E query \in CallbackQueries : CallbackRequest(query)
    \/ \E cb \in callbacks, outcome \in {"response", "throw"} :
          CallbackFetched(cb, outcome)
    \/ \E cb \in callbacks, outcome \in {"access_token", "no_token", "throw"} :
          CallbackExchange(cb, outcome)
    \/ \E body \in StatusBodies : Status(body)
    \/ \E d \in Deltas : Tick(d)

(***************************************************************************)
(* Properties of the authorization flow, stated for SpecAuth.              *)
(***************************************************************************)
\* A status request that carries a state token generated by initiate.
PollOf(body) ==
    /\ Status(body)
    /\ "state" \in DOMAIN body
    /\ body.state \in 1..issued

Pending(state) ==
    [op |-> "status", status |-> 200, state |-> state, authenticated |-> FALSE]

IsAuthorized(resp) ==
    /\ resp.op = "status"
    /\ resp.status = 200
    /\ resp.authenticated

\* C7: a poll of a generated state token, issued while no callback for it
\* has obtained a token and the session's age is at most the TTL, reports
\* Pending: authenticated:false and no token.
C7_FreshSessionPending ==
    [][\A body \in StatusBodies :
          (/\ PollOf(body)
           /\ granted[body.state] = {}
           /\ now - created[body.state] <= TTL)
          => authResp' = Pending(body.state)]_vars

\* C7 witness: a session polled in the millisecond it was created.
C7_Witness ==
    /\ authResp.op = "status"
    /\ authResp.status = 200
    /\ ~authResp.authenticated
    /\ now = created[authResp.state]

\* C8: a status response with authenticated:true carries a token that the
\* provider returned to a callback carrying the polled state; the same holds
\* of every credential in the store.
C8_TokenFromOwnCallback ==
    /\ (authResp.op = "status" /\ authResp.status = 200
          /\ authResp.authenticated) =>
           /\ "token" \in DOMAIN authResp
           /\ authResp.token \in granted[authResp.state]
    /\ \A s \in DOMAIN githubAuthSessions :
           "token" \in DOMAIN githubAuthSessions[s] =>
               githubAuthSessions[s].token \in granted[s]

\* C8 witness: a poll answered with a token while a callback for another
\* state has obtained a different token.
C8_Witness ==
    /\ IsAuthorized(authResp)
    /\ \E t \in States \ {authResp.state} :
          /\ granted[t] # {}
          /\ authResp.token \notin granted[t]

\* C9: once a callback for a state has obtained a token, every poll of that
\* state issued while the session's age is at most the TTL reports
\* authenticated:true with a token obtained by a callback for that state.
C9_AuthorizedWithinTTL ==
    [][\A body \in StatusBodies :
          (/\ PollOf(body)
           /\ granted[body.state] # {}
           /\ now - created[body.state] <= TTL)
          => /\ IsAuthorized(authResp')
             /\ authResp'.state = body.state
             /\ authResp'.token \in granted[body.state]]_vars

\* C9 witness: an authorized session polled at an age of exactly the TTL.
C9_Witness ==
    /\ IsAuthorized(authResp)
    /\ authResp.token \in granted[authResp.state]
    /\ now - created[authResp.state] = TTL

\* C10: a poll of a stored session reports Expired and deletes that session
\* (and no other) exactly when its age is strictly greater than the TTL; at
\* an age of at most the TTL it reports Pending or Authorized (200,
\* authenticated exactly when a token is attached) and leaves the store
\* unchanged;
\* a poll of a state that is not stored reports NotFound, and a deleted
\* session never returns to the store.
C10_ExpiryBoundary ==
    [][/\ \A body \in StatusBodies :
             (Status(body) /\ "state" \in DOMAIN body) =>
                IF body.state \in DOMAIN githubAuthSessions
                THEN IF now - githubAuthSessions[body.state].timestamp > TTL
                     THEN /\ authResp'.status = 410
                          /\ authResp'.state = body.state
                          /\ DOMAIN githubAuthSessions' =
                               DOMAIN githubAuthSessions \ {body.state}
                     ELSE /\ authResp'.status = 200
                          /\ authResp'.state = body.state
                          /\ authResp'.authenticated =
                               ("token" \in DOMAIN githubAuthSessions[body.state])
                          /\ githubAuthSessions' = githubAuthSessions
                ELSE /\ authResp'.status = 404
                     /\ githubAuthSessions' = githubAuthSessions
       /\ \A s \in 1..issued :
             s \notin DOMAIN githubAuthSessions
                => s \notin DOMAIN githubAuthSessions']_vars

\* C10 witness: a session polled one millisecond after its TTL elapsed was
\* reported Expired and is gone.
C10_Witness ==
    /\ authResp.op = "status"
    /\ authResp.status = 410
    /\ now - created[authResp.state] = TTL + 1
    /\ authResp.state \notin DOMAIN githubAuthSessions

\* C11: a status request whose state is not a key of the session store is
\* answered 404 with authenticated:false (not the handler's 500), and the
\* store is left as it was.
C11_UnknownStateNotFound ==
    [][\A body \in StatusBodies :
          (/\ Status(body)
           /\ "state" \in DOMAIN body
           /\ body.state \notin DOMAIN githubAuthSessions)
          => /\ authResp'.op = "status"
             /\ authResp'.status = 404
             /\ authResp'.state = body.state
             /\ ~authResp'.authenticated
             /\ "token" \notin DOMAIN authResp'
             /\ githubAuthSessions' = githubAuthSessions]_vars

\* C11 witness: a generated state whose session is gone was polled and
\* reported NotFound while another session is stored.
C11_Witness ==
    /\ authResp.op = "status"
    /\ authResp.status = 404
    /\ authResp.state \in 1..issued
    /\ authResp.state \notin DOMAIN githubAuthSessions
    /\ DOMAIN githubAuthSessions # {}

\* C12: a callback carrying a code and a state that matches no stored
\* session is answered with the invalid-session page; no token exchange is
\* started for it, and no session is created or modified.
C12_UnknownStateRejected ==
    [][\A query \in CallbackQueries :
          (/\ CallbackRequest(query)
           /\ "code" \in DOMAIN query
           /\ "state" \in DOMAIN query
           /\ query.state \notin DOMAIN githubAuthSessions)
          => /\ authResp'.op = "callback"
             /\ authResp'.status = 400
             /\ authResp'.page = "Invalid or expired authentication session"
             /\ callbacks' = callbacks
             /\ cbCount' = cbCount
             /\ granted' = granted
             /\ githubAuthSessions' = githubAuthSessions]_vars

\* C12 witness: the callback for a generated state arrived after its session
\* had been removed, and was rejected, while another session is stored.
C12_Witness ==
    /\ authResp.op = "callback"
    /\ authResp.status = 400
    /\ "state" \in DOMAIN authResp
    /\ authResp.state \in 1..issued
    /\ authResp.state \notin DOMAIN githubAuthSessions
    /\ DOMAIN githubAuthSessions # {}

\* C13: a token exchange that fails (the provider answers without an access
\* token, or the exchange throws) for a stored session without a token
\* leaves the store as it is, so the session stays Pending with its
\* timestamp, and the failure page is sent; while the session's age is at
\* most the TTL a callback with that state is accepted again, and a
\* successful exchange attaches its token to the session.
C13_FailedExchangeKeepsPending ==
    [][/\ \A cb \in callbacks, outcome \in {"no_token", "throw"} :
             (/\ \/ CallbackExchange(cb, outcome)
                 \/ outcome = "throw" /\ CallbackFetched(cb, outcome)
              /\ cb.state \in DOMAIN githubAuthSessions
              /\ "token" \notin DOMAIN githubAuthSessions[cb.state])
             => /\ githubAuthSessions' = githubAuthSessions
                /\ authResp' = [op |-> "callback", status |-> 500,
                                state |-> cb.state,
                                page |-> "GitHub Connection Failed"]
       /\ \A query \in CallbackQueries :
             (/\ CallbackRequest(query)
              /\ "code" \in DOMAIN query
              /\ "state" \in DOMAIN query
              /\ query.state \in 1..issued
              /\ now - created[query.state] <= TTL)
             => \E cb \in callbacks' \ callbacks : cb.state = query.state
       /\ \A cb \in callbacks :
             (/\ CallbackExchange(cb, "access_token")
              /\ now - created[cb.state] <= TTL)
             => /\ cb.state \in DOMAIN githubAuthSessions'
                /\ githubAuthSessions'[cb.state] =
                     [timestamp |-> created[cb.state], token |-> cb.id]
                /\ authResp'.page = "GitHub Connected"]_vars

\* C13 witness: the only state generated had two callbacks; the first one's
\* exchange failed, the second one's succeeded afterwards and its token is
\* attached to the session.
C13_Witness ==
    /\ issued = 1
    /\ cbCount = 2
    /\ callbacks = {}
    /\ granted[1] = {2}
    /\ authResp.op = "callback"
    /\ authResp.status = 200
    /\ authResp.token = 2
    /\ 1 \in DOMAIN githubAuthSessions
    /\ githubAuthSessions[1] = [timestamp |-> created[1], token |-> 2]

\* C14: a successful initiate stores a new session without a token, with
\* the clock's reading at its creation as timestamp, under the state it
\* returns; when it returns no stored session is older than the TTL, and
\* every session whose age at the sweep is at most the TTL is still stored,
\* unchanged.  Ages are taken at the sweep's reading of the clock, which is
\* the time when initiate returns.
C14_InitiateAddsAndSweeps ==
    [][\A d \in HandlerDeltas :
          (Initiate(d) /\ GITHUB_CLIENT_ID # "") =>
          LET state == issued + 1
          IN /\ authResp' = [op |-> "auth", status |-> 200, state |-> state]
             /\ state \notin DOMAIN githubAuthSessions
             /\ state \in DOMAIN githubAuthSessions'
             /\ githubAuthSessions'[state] = [timestamp |-> now]
             /\ \A s \in DOMAIN githubAuthSessions' :
                   now' - githubAuthSessions'[s].timestamp <= TTL
             /\ \A s \in DOMAIN githubAuthSessions :
                   now' - githubAuthSessions[s].timestamp <= TTL
                   => /\ s \in DOMAIN githubAuthSessions'
                      /\ githubAuthSessions'[s] = githubAuthSessions[s]]_vars

\* C14 witness: an initiate has just returned; it swept a session one
\* millisecond past the TTL and kept one whose age is exactly the TTL.
C14_Witness ==
    /\ authResp.op = "auth"
    /\ authResp.status = 200
    /\ githubAuthSessions[authResp.state] = [timestamp |-> now]
    /\ \E s \in 1..issued :
          /\ now - created[s] = TTL + 1
          /\ s \notin DOMAIN githubAuthSessions
    /\ \E s \in DOMAIN githubAuthSessions : now - created[s] = TTL

\* C15: once a token is attached to a session, the session keeps that very
\* token for as long as it is stored.
C15_CredentialAttachedOnce ==
    [][\A s \in DOMAIN githubAuthSessions :
          ("token" \in DOMAIN githubAuthSessions[s]
              /\ s \in DOMAIN githubAuthSessions')
          => /\ "token" \in DOMAIN githubAuthSessions'[s]
             /\ githubAuthSessions'[s].token =
                  githubAuthSessions[s].token]_vars

\* C24: with no client id configured, initiate answers 500 without a state
\* token, generates no token, and leaves the session store as it is.
C24_UnconfiguredInitiate ==
    [][((\E d \in HandlerDeltas : Initiate(d)) /\ GITHUB_CLIENT_ID = "") =>
          /\ authResp'.op = "auth"
          /\ authResp'.status = 500
          /\ "state" \notin DOMAIN authResp'
          /\ issued' = issued
          /\ githubAuthSessions' = githubAuthSessions]_vars

\* C24 witness: initiate was answered 500 by a backend without a client id.
C24_Witness ==
    /\ GITHUB_CLIENT_ID = ""
    /\ authResp.op = "auth"
    /\ authResp.status = 500
    /\ issued = 0
    /\ DOMAIN githubAuthSessions = {}

\* C30: a callback (its request or its token exchange) or a status request
\* carrying state A leaves every stored session with another state in the
\* store, unchanged; an initiate removes only sessions older than the TTL
\* at its sweep and changes none that it keeps; the passing of time changes
\* nothing.
OthersKept(state) ==
    \A other \in DOMAIN githubAuthSessions \ {state} :
       /\ other \in DOMAIN githubAuthSessions'
       /\ githubAuthSessions'[other] = githubAuthSessions[other]

C30_SessionsIndependent ==
    [][/\ \A query \in CallbackQueries :
             (CallbackRequest(query) /\ "state" \in DOMAIN query)
                => OthersKept(query.state)
       /\ \A cb \in callbacks, outcome \in {"response", "throw"} :
             CallbackFetched(cb, outcome) => OthersKept(cb.state)
       /\ \A cb \in callbacks,
             outcome \in {"access_token", "no_token", "throw"} :
             CallbackExchange(cb, outcome) => OthersKept(cb.state)
       /\ \A body \in StatusBodies :
             (Status(body) /\ "state" \in DOMAIN body)
                => OthersKept(body.state)
       /\ (\E d \in HandlerDeltas : Initiate(d)) =>
             \A s \in DOMAIN githubAuthSessions :
                IF s \in DOMAIN githubAuthSessions'
                THEN githubAuthSessions'[s] = githubAuthSessions[s]
                ELSE now' - githubAuthSessions[s].timestamp > TTL
       /\ (\E d \in Deltas : Tick(d))
             => githubAuthSessions' = githubAuthSessions]_vars

\* C30 witness: a callback attached its token to one session while another
\* session, older than the TTL, is still stored without a token.
C30_Witness ==
    /\ authResp.op = "callback"
    /\ authResp.status = 200
    /\ authResp.state \in DOMAIN githubAuthSessions
    /\ "token" \in DOMAIN githubAuthSessions[authResp.state]
    /\ \E other \in DOMAIN githubAuthSessions \ {authResp.state} :
          /\ githubAuthSessions[other] = [timestamp |-> created[other]]
          /\ now - created[other] > TTL

\* C31: a status request for a generated state whose session is older than
\* the TTL is never answered 200 and never with a token: it is answered
\* Expired when the session is stored, with or without a token, and
\* NotFound when it is not.
C31_NoAnswerPastTTL ==
    [][\A body \in StatusBodies :
          (/\ PollOf(body)
           /\ now - created[body.state] > TTL)
          => /\ authResp'.status =
                  IF body.state \in DOMAIN githubAuthSessions
                  THEN 410 ELSE 404
             /\ ~authResp'.authenticated
             /\ "token" \notin DOMAIN authResp'
             /\ body.state \notin DOMAIN githubAuthSessions']_vars

\* C31 witness: a session that was given a token by a callback was polled
\* one millisecond past its TTL, with no initiate after it, and reported
\* Expired.
C31_Witness ==
    /\ authResp.op = "status"
    /\ authResp.status = 410
    /\ granted[authResp.state] # {}
    /\ authResp.state = issued
    /\ now - created[authResp.state] = TTL + 1

\* C32: when a token exchange ends with the success page for state S, the
\* store holds a session under S with the token just obtained.
C32_SuccessPageMeansStored ==
    [][\A cb \in callbacks :
          CallbackExchange(cb, "access_token")
          => /\ authResp'.page = "GitHub Connected"
             /\ cb.state \in DOMAIN githubAuthSessions'
             /\ "token" \in DOMAIN githubAuthSessions'[cb.state]
             /\ githubAuthSessions'[cb.state].token = cb.id]_vars

\* C33: a stored session with a token still has a token after every step
\* that keeps it in the store, and a token exchange that fails leaves the
\* store, and so the session's token, as it was.
C33_NeverBackToPending ==
    [][/\ \A s \in DOMAIN githubAuthSessions :
             ("token" \in DOMAIN githubAuthSessions[s]
                 /\ s \in DOMAIN githubAuthSessions')
             => "token" \in DOMAIN githubAuthSessions'[s]
       /\ \A cb \in callbacks, outcome \in {"no_token", "throw"} :
             (\/ CallbackExchange(cb, outcome)
              \/ outcome = "throw" /\ CallbackFetched(cb, outcome))
             => githubAuthSessions' = githubAuthSessions]_vars

\* C33 witness: the second callback of a session's state failed after the
\* first had attached its token; the session still holds that token.
C33_Witness ==
    /\ authResp.op = "callback"
    /\ authResp.status = 500
    /\ authResp.state \in DOMAIN githubAuthSessions
    /\ githubAuthSessions[authResp.state]
          = [timestamp |-> created[authResp.state], token |-> 1]
    /\ cbCount = 2
    /\ callbacks = {}

\* C34: a status request answered 200 leaves the store as it was and, when
\* authenticated, answers with the token the session holds before and
\* after it; every stored session keeps the timestamp it was created with,
\* so a session polled at an age above the TTL is Expired however often it
\* was polled before.
C34_PollReadOnly ==
    [][/\ \A body \in StatusBodies :
             (Status(body) /\ authResp'.status = 200)
             => /\ githubAuthSessions' = githubAuthSessions
                /\ authResp'.authenticated =>
                      authResp'.token = githubAuthSessions[body.state].token
                /\ ~authResp'.authenticated =>
                      "token" \notin DOMAIN githubAuthSessions[body.state]
       /\ \A s \in DOMAIN githubAuthSessions' :
             githubAuthSessions'[s].timestamp = created'[s]]_vars

\* C34 witness: an Authorized session polled at an age of exactly the TTL,
\* still stored with its token and its timestamp.
C34_Witness ==
    /\ IsAuthorized(authResp)
    /\ now - created[authResp.state] = TTL
    /\ githubAuthSessions[authResp.state]
          = [timestamp |-> created[authResp.state],
             token |-> authResp.token]

(***************************************************************************)
(* The generation pipeline: POST /api/upload and OpenAIService.  The image *)
(* host and the two AI capabilities are the environment.                   *)
(***************************************************************************)
\* req.body of POST /api/upload
UploadBodies ==
    { [imageUrl |-> JsString("https://design/image.png")],
      [imageUrl |-> JsString("")],
      [imageUrl |-> JsPlainObject],
      [other |-> 0] }

\* !imageUrl || typeof imageUrl !== "string"
MalformedUrl(body) ==
    \/ "imageUrl" \notin DOMAIN body
    \/ "primitive" \notin DOMAIN body.imageUrl
    \/ body.imageUrl.primitive = ""

MaxImageBytes == 10 * 1024 * 1024

\* What the fetch of the image comes to: it throws, or answers with a
\* status that is ok or not.
FetchOutcomes == { [throws |-> TRUE], [ok |-> FALSE], [ok |-> TRUE] }

\* What image.arrayBuffer() comes to: it throws, or delivers a body of some
\* length.
BufferOutcomes ==
    { [throws |-> TRUE] }
    \cup { [length |-> n] : n \in {1, MaxImageBytes, MaxImageBytes + 1} }

\* buffer.length > 10 * 1024 * 1024
TooLarge_atLimit(length) == length >= MaxImageBytes

TooLarge(length) == length > MaxImageBytes

\* What the chat completion of getImageDesc comes to.
CompletionOutcomes == { [rejected |-> TRUE], [content |-> "description"],
                        [content |-> ""] }

\* What the agent run of generateAppContent comes to.
RunOutcomes == { [rejected |-> TRUE] }
               \cup { [finalOutput |-> p] : p \in Payloads }

\* getImageDesc: the description, or the error thrown by its catch
getImageDesc(completion) ==
    IF "rejected" \in DOMAIN completion
    THEN [throws |-> "Failed to analyze image. Try again shortly."]
    ELSE [value |-> IF completion.content = ""
                    THEN "No description available"
                    ELSE completion.content]

\* generateAppContent: the final output, or the error thrown by its catch
generateAppContent_swallow(ran) ==
    IF "rejected" \in DOMAIN ran
    THEN [value |-> Undefined]
    ELSE [value |-> ran.finalOutput]

generateAppContent(ran) ==
    IF "rejected" \in DOMAIN ran
    THEN [throws |-> "App generation failed. Try again shortly."]
    ELSE [value |-> ran.finalOutput]

UploadIds == 1..Len(uploads)

Respond(id, response) ==
    uploads' = [uploads EXCEPT ![id] = [pc |-> "responded",
                                        resp |-> response]]

\* The catch of the upload handler: it logs and throws; the handler sends
\* no response.
Rethrow(id) ==
    uploads' = [uploads EXCEPT ![id] = [pc |-> "rejected",
                                        at |-> uploads[id].pc,
                                        resp |-> NoResponse]]

\* POST /api/upload, up to the await of the image fetch
UploadRequest(body) ==
    /\ Len(uploads) < MaxUploads
    /\ uploads' = Append(uploads,
         IF MalformedUrl(body)
         THEN [pc |-> "responded",
               resp |-> [status |-> 400,
                         error |-> "Malformed or invalid URL."]]
         ELSE [pc |-> "fetch", resp |-> NoResponse])
    /\ UNCHANGED <<appStructure, completed, projResp>>
    /\ UNCHANGED <<exVars, authVars, clVars>>

\* POST /api/upload, from the fetch's answer to the await of
\* image.arrayBuffer()
FetchDone(id, outcome) ==
    /\ id \in UploadIds
    /\ uploads[id].pc = "fetch"
    /\ IF "throws" \in DOMAIN outcome
       THEN Rethrow(id)
       ELSE IF ~outcome.ok
       THEN Respond(id, [status |-> 500,
                         error |-> "Failed to fetch image from URL."])
       ELSE uploads' = [uploads EXCEPT ![id].pc = "buffer"]
    /\ UNCHANGED <<appStructure, completed, projResp>>
    /\ UNCHANGED <<exVars, authVars, clVars>>

\* POST /api/upload, from the settling of image.arrayBuffer() to the await
\* of getImageDesc
BufferDone(id, outcome) ==
    /\ id \in UploadIds
    /\ uploads[id].pc = "buffer"
    /\ IF "throws" \in DOMAIN outcome
       THEN Rethrow(id)
       ELSE IF TooLarge(outcome.length)
       THEN Respond(id, [status |-> 400,
                         error |-> "File too large. Max. size is 10MB"])
       ELSE uploads' = [uploads EXCEPT ![id] = [pc |-> "describe",
                                                length |-> outcome.length,
                                                resp |-> NoResponse]]
    /\ UNCHANGED <<appStructure, completed, projResp>>
    /\ UNCHANGED <<exVars, authVars, clVars>>

\* POST /api/upload, from getImageDesc's answer to the await of
\* generateAppContent
DescribeDone(id, completion) ==
    /\ id \in UploadIds
    /\ uploads[id].pc = "describe"
    /\ IF "throws" \in DOMAIN getImageDesc(completion)
       THEN Rethrow(id)
       ELSE uploads' = [uploads EXCEPT ![id].pc = "generate"]
    /\ UNCHANGED <<appStructure, completed, projResp>>
    /\ UNCHANGED <<exVars, authVars, clVars>>

\* POST /api/upload, from generateAppContent's answer to the response
GenerateDone(id, ran) ==
    /\ id \in UploadIds
    /\ uploads[id].pc = "generate"
    /\ LET generated == generateAppContent(ran)
       IN IF "throws" \in DOMAIN generated
          THEN /\ Rethrow(id)
               /\ UNCHANGED <<appStructure, completed>>
          ELSE LET appFiles == generated.value
                   projectStructure == buildAppHierarchy(appFiles)
               IN /\ appStructure' = projectStructure
                  /\ completed' = Append(completed, id)
                  /\ uploads' = [uploads EXCEPT ![id] =
                       [pc |-> "responded",
                        appFiles |-> appFiles,
                        resp |-> [status |-> 200, success |-> TRUE,
                                  message |-> "File processed successfully",
                                  project |-> projectStructure]]]
    /\ UNCHANGED projResp
    /\ UNCHANGED <<exVars, authVars, clVars>>

\* res.json({ app: this.appStructure })
ProjectResponse_skeleton(tree) == [status |-> 200, app |-> getAppSchema]

ProjectResponse(tree) == [status |-> 200, app |-> tree]

\* GET /api/project
GetProject ==
    /\ projResp' = ProjectResponse(appStructure)
    /\ UNCHANGED <<appStructure, uploads, completed>>
    /\ UNCHANGED <<exVars, authVars, clVars>>

GenInit ==
    /\ appStructure = getAppSchema
    /\ uploads = <<>>
    /\ completed = <<>>
    /\ projResp = NoResponse

GenNext ==
    \/ \E body \in UploadBodies : UploadRequest(body)
    \/ \E id \in UploadIds, outcome \in FetchOutcomes : FetchDone(id, outcome)
    \/ \E id \in UploadIds, outcome \in BufferOutcomes :
          BufferDone(id, outcome)
    \/ \E id \in UploadIds, completion \in CompletionOutcomes :
          DescribeDone(id, completion)
    \/ \E id \in UploadIds, ran \in RunOutcomes : GenerateDone(id, ran)
    \/ GetProject

(***************************************************************************)
(* Properties of the generation pipeline, stated for SpecGen.              *)
(***************************************************************************)
\* The requests answered with a generated project.
Generated == {i \in UploadIds : "appFiles" \in DOMAIN uploads[i]}
ProjectOf(i) == uploads[i].resp.project

\* The File leaves of a tree as [path, contents] pairs.
RECURSIVE FilesOf(_, _)
FilesOf(currentPath, entries) ==
    IF Len(entries) = 0 THEN {}
    ELSE LET key == Head(entries)[1]
             value == Head(entries)[2]
             path == fullPath(currentPath, key)
             here == IF "file" \in DOMAIN value
                     THEN {<<path, value.file.contents>>}
                     ELSE FilesOf(path, value.directory)
         IN here \cup FilesOf(currentPath, Tail(entries))

\* No key occurs twice in a directory, at any depth.
RECURSIVE UniqueNames(_)
UniqueNames(entries) ==
    /\ \A i, j \in 1..Len(entries) : entries[i][1] = entries[j][1] => i = j
    /\ \A i \in 1..Len(entries) :
          "directory" \in DOMAIN entries[i][2]
             => UniqueNames(entries[i][2].directory)

\* The node a sequence of keys leads to, Undefined when there is none.
RECURSIVE NodeAt(_, _)
NodeAt(entries, keys) ==
    IF ~ObjHas(entries, Head(keys)) THEN Undefined
    ELSE LET node == ObjGet(entries, Head(keys))
         IN IF Len(keys) = 1 THEN node
            ELSE IF "directory" \in DOMAIN node
                 THEN NodeAt(node.directory, Tail(keys))
                 ELSE Undefined

SectionEntries(appFiles, section) ==
    IF section \in DOMAIN appFiles THEN appFiles[section] ELSE <<>>

Names(appFiles, section) ==
    LET entries == SectionEntries(appFiles, section)
    IN {entries[k][1] : k \in 1..Len(entries)}

PairwiseDisjoint(appFiles) ==
    /\ Names(appFiles, "components") \cap Names(appFiles, "styles") = {}
    /\ Names(appFiles, "components") \cap Names(appFiles, "pages") = {}
    /\ Names(appFiles, "styles") \cap Names(appFiles, "pages") = {}

\* Every entry of the section is a File with the payload's code under the
\* directory the keys lead to.
PlacedUnder(project, dirKeys, entries) ==
    \A k \in 1..Len(entries) :
       NodeAt(project, dirKeys \o <<entries[k][1]>>) = File(entries[k][2])

C17_EachFileInItsSubtree ==
    \A i \in Generated :
       LET appFiles == uploads[i].appFiles
       IN PairwiseDisjoint(appFiles) =>
             /\ PlacedUnder(ProjectOf(i), <<"src", "components">>,
                            SectionEntries(appFiles, "components"))
             /\ PlacedUnder(ProjectOf(i), <<"src", "styles">>,
                            SectionEntries(appFiles, "styles"))
             /\ PlacedUnder(ProjectOf(i), <<"src">>,
                            SectionEntries(appFiles, "pages"))

\* C18: in every generated tree, and in the current tree, the root holds
\* exactly the skeleton's entries in the skeleton's order, the three root
\* files with their skeleton contents, and src is a directory.
SkeletonRoot(tree) ==
    /\ Len(tree) = Len(getAppSchema)
    /\ \A k \in 1..Len(tree) :
          /\ tree[k][1] = getAppSchema[k][1]
          /\ IF tree[k][1] = "src"
             THEN "directory" \in DOMAIN tree[k][2]
             ELSE tree[k][2] = getAppSchema[k][2]

C18_RootSkeletonKept ==
    /\ SkeletonRoot(appStructure)
    /\ \A i \in Generated : SkeletonRoot(ProjectOf(i))

\* C18 witness: a payload with pages named index.html and src was
\* generated.
C18_Witness ==
    \E i \in Generated :
       /\ {"index.html", "src"} \subseteq Names(uploads[i].appFiles, "pages")
       /\ appStructure = ProjectOf(i)
       /\ NodeAt(appStructure, <<"src", "index.html">>) = File("page")

\* C19: a generation whose payload lacks sections, or is absent, is
\* answered with a tree that has the files the payload completed with
\* empty sections would give, in which src/components (src/styles) is the
\* skeleton's empty directory when the components (styles) section is
\* missing, and src holds nothing but the two reserved directories when
\* the pages section is missing.
Completed(appFiles) ==
    [n \in Sections |-> SectionEntries(appFiles, n)]

C19_MissingSectionsSkipped ==
    \A i \in Generated :
       LET appFiles == uploads[i].appFiles
           src == NodeAt(ProjectOf(i), <<"src">>)
       IN /\ FilesOf("", ProjectOf(i))
               = FilesOf("", buildAppHierarchy(Completed(appFiles)))
          /\ "components" \notin DOMAIN appFiles
                => NodeAt(ProjectOf(i), <<"src", "components">>)
                      = Directory(<<>>)
          /\ "styles" \notin DOMAIN appFiles
                => NodeAt(ProjectOf(i), <<"src", "styles">>)
                      = Directory(<<>>)
          /\ "pages" \notin DOMAIN appFiles
                => Len(src.directory) = 2

\* C20: when getImageDesc or generateAppContent fails, the handler leaves
\* this.appStructure as it is and sends no response carrying a project.
C20_FailedGenerationKeepsTree ==
    [][\A id \in UploadIds :
          (\/ \E completion \in CompletionOutcomes :
                 /\ "rejected" \in DOMAIN completion
                 /\ DescribeDone(id, completion)
           \/ \E ran \in RunOutcomes :
                 /\ "rejected" \in DOMAIN ran
                 /\ GenerateDone(id, ran))
          => /\ appStructure' = appStructure
             /\ "project" \notin DOMAIN uploads'[id].resp
             /\ "success" \notin DOMAIN uploads'[id].resp]_vars

\* C20 witness: after a generation replaced the skeleton, a later request
\* failed in generateAppContent; the generated tree is still the current
\* one.
C20_Witness ==
    /\ appStructure # getAppSchema
    /\ \E i \in Generated : appStructure = ProjectOf(i)
    /\ \E i \in UploadIds :
          /\ uploads[i].pc = "rejected"
          /\ uploads[i].at = "generate"
          /\ \E j \in Generated : j < i

\* C21: every request whose handler has ended was sent a response with a
\* status, and an upload request that failed in the image fetch, in
\* getImageDesc or in generateAppContent was sent a 500 error payload.
C21_EveryFailureAnswered ==
    /\ \A id \in UploadIds :
          uploads[id].pc \in {"responded", "rejected"} =>
             /\ "status" \in DOMAIN uploads[id].resp
             /\ uploads[id].pc = "rejected" =>
                   /\ uploads[id].resp.status = 500
                   /\ "error" \in DOMAIN uploads[id].resp
    /\ exPc = "done" => "status" \in DOMAIN exResp

\* C23: a request without a non-empty string imageUrl is answered 400 at
\* once; a fetch answered with a status that is not ok is answered 500; a
\* fetched image longer than 10 * 1024 * 1024 bytes is answered 400; in
\* these cases the handler was still before the call of getImageDesc, it
\* has ended, and the current tree is unchanged.  An image of at most
\* 10 * 1024 * 1024 bytes takes the handler to the call of getImageDesc.
Rejected(upload, status) ==
    /\ upload.pc = "responded"
    /\ upload.resp.status = status
    /\ "error" \in DOMAIN upload.resp

C23_UploadValidation ==
    [][/\ \A body \in UploadBodies :
             (UploadRequest(body) /\ MalformedUrl(body))
                => /\ Rejected(uploads'[Len(uploads) + 1], 400)
                   /\ appStructure' = appStructure
       /\ \A id \in UploadIds, outcome \in FetchOutcomes :
             (FetchDone(id, outcome) /\ "ok" \in DOMAIN outcome)
                => /\ uploads[id].pc = "fetch"
                   /\ appStructure' = appStructure
                   /\ IF ~outcome.ok
                      THEN Rejected(uploads'[id], 500)
                      ELSE /\ uploads'[id].pc = "buffer"
                           /\ uploads'[id].resp = NoResponse
       /\ \A id \in UploadIds, outcome \in BufferOutcomes :
             (BufferDone(id, outcome) /\ "length" \in DOMAIN outcome)
                => /\ uploads[id].pc = "buffer"
                   /\ appStructure' = appStructure
                   /\ IF outcome.length > 10 * 1024 * 1024
                      THEN Rejected(uploads'[id], 400)
                      ELSE /\ uploads'[id].pc = "describe"
                           /\ uploads'[id].resp = NoResponse
       /\ \A id \in UploadIds :
             uploads[id].pc = "responded" => uploads'[id] = uploads[id]]_vars

\* C23 witness: one request was rejected for its image's size, and another,
\* whose image has exactly 10 * 1024 * 1024 bytes, is in getImageDesc.
C23_Witness ==
    /\ \E id \in UploadIds :
          /\ Rejected(uploads[id], 400)
          /\ uploads[id].resp.error = "File too large. Max. size is 10MB"
    /\ \E id \in UploadIds :
          /\ uploads[id].pc = "describe"
          /\ uploads[id].length = 10 * 1024 * 1024
    /\ appStructure = getAppSchema

\* C29: GET /api/project answers with the skeleton while no generation has
\* completed, and otherwise with the tree of the generation that completed
\* last; that tree is the current one after every step.
LastCompleted ==
    IF completed = <<>> THEN getAppSchema
    ELSE ProjectOf(completed[Len(completed)])

C29_ProjectIsLastCompleted ==
    [][/\ appStructure' = LastCompleted'
       /\ GetProject => projResp'.app = LastCompleted]_vars

\* C29 witness: of two generations in flight together the one requested
\* second completed first; GET /api/project answered with the tree of the
\* first request, which differs from the other's.
C29_Witness ==
    /\ completed = <<2, 1>>
    /\ "app" \in DOMAIN projResp
    /\ projResp.app = ProjectOf(1)
    /\ ProjectOf(1) # ProjectOf(2)
    /\ ProjectOf(1) # getAppSchema

\* C35: the tree of every generation holds exactly the files of the
\* skeleton and the files of that generation's payload, each under its
\* section's directory, whatever was generated before.
SectionFiles(dir, entries) ==
    {<<fullPath(dir, entries[k][1]), entries[k][2]>> : k \in 1..Len(entries)}

PayloadFiles(appFiles) ==
    SectionFiles("src/components", SectionEntries(appFiles, "components"))
       \cup SectionFiles("src/styles", SectionEntries(appFiles, "styles"))
       \cup SectionFiles("src", SectionEntries(appFiles, "pages"))

C35_FreshSkeletonPerGeneration ==
    \A i \in Generated :
       FilesOf("", ProjectOf(i))
          = FilesOf("", getAppSchema) \cup PayloadFiles(uploads[i].appFiles)

(***************************************************************************)
(* The client: connectToGitHub and pollForGitHubAuth.                      *)
(***************************************************************************)
\* The number of status polls of one connect attempt.
maxAttempts == 30

\* What the fetch of /api/github/auth comes to: a response with a status,
\* or a rejected promise.
AuthAnswers ==
    { [status |-> 200], [status |-> 400], [status |-> 500],
      [throws |-> TRUE] }

\* What response.json() of an ok answer of /api/github/auth comes to: the
\* authorization URL with its state, or a rejected promise.
AuthBodies ==
    { [authUrl |-> "https://github.com/login/oauth/authorize",
       state |-> "s1"],
      [throws |-> TRUE] }

\* What the fetch of /api/github/auth/status comes to: a response with a
\* status (ok, missing state, unknown state, expired state, server error),
\* or a rejected promise.
PollAnswers ==
    { [status |-> 200], [status |-> 400], [status |-> 404],
      [status |-> 410], [status |-> 500], [throws |-> TRUE] }

\* What response.json() of an ok answer of /api/github/auth/status comes
\* to: the session authorized (with its token), still pending, or a rejected
\* promise.
PollBodies ==
    { [authenticated |-> TRUE, token |-> "gho_token"],
      [authenticated |-> FALSE],
      [throws |-> TRUE] }

\* No status poll answered yet in this connect attempt.
NoPoll == [none |-> TRUE]

\* response.ok of a settled fetch; a rejected fetch gives no response.
ResponseOk(resp) ==
    /\ "throws" \notin DOMAIN resp
    /\ resp.status \in 200..299

\* if (data.authenticated); a rejected response.json() is caught by
\* checkAuth, which then returns false.
Authenticated(data) ==
    /\ "throws" \notin DOMAIN data
    /\ data.authenticated

LoopContinues_offByOne(n) == n <= maxAttempts

\* The test of poll's while loop.
LoopContinues(n) == n < maxAttempts

\* connectToGitHub up to its first await: it returns at once while a connect
\* is in progress; otherwise it marks the connect in progress and asks the
\* backend for the authorization URL.
ConnectToGitHub ==
    /\ IF isConnecting
       THEN UNCHANGED clVars
       ELSE /\ isConnecting' = TRUE
            /\ clPc' = "auth"
            /\ polls' = 0
            /\ lastPoll' = NoPoll
            /\ UNCHANGED <<isGitHubConnected, githubToken, attempts>>
    /\ UNCHANGED <<exVars, authVars, genVars>>

\* The fetch of the authorization URL settles: an ok response is read with
\* response.json(); anything else is thrown again by the catch block and
\* the finally block resets isConnecting.
AuthAnswered(resp) ==
    /\ clPc = "auth"
    /\ IF ResponseOk(resp)
       THEN /\ clPc' = "authJson"
            /\ UNCHANGED isConnecting
       ELSE /\ clPc' = "idle"
            /\ isConnecting' = FALSE
    /\ UNCHANGED <<isGitHubConnected, githubToken, attempts, polls, lastPoll>>
    /\ UNCHANGED <<exVars, authVars, genVars>>

\* response.json() of the authorization answer settles: with the body,
\* requestOpenExternalUrl is called; rejected, the catch and finally blocks
\* run.
AuthParsed(data) ==
    /\ clPc = "authJson"
    /\ IF "throws" \in DOMAIN data
       THEN /\ clPc' = "idle"
            /\ isConnecting' = FALSE
       ELSE /\ clPc' = "open"
            /\ UNCHANGED isConnecting
    /\ UNCHANGED <<isGitHubConnected, githubToken, attempts, polls, lastPoll>>
    /\ UNCHANGED <<exVars, authVars, genVars>>

\* requestOpenExternalUrl settles: resolved, pollForGitHubAuth starts with
\* attempts = 0 and enters its loop; rejected, the catch and finally blocks
\* run.
OpenedUrl(resolved) ==
    /\ clPc = "open"
    /\ IF resolved
       THEN /\ attempts' = 0
            /\ IF LoopContinues(0)
               THEN clPc' = "poll" /\ UNCHANGED isConnecting
               ELSE clPc' = "idle" /\ isConnecting' = FALSE
       ELSE /\ clPc' = "idle"
            /\ isConnecting' = FALSE
            /\ UNCHANGED attempts
    /\ UNCHANGED <<isGitHubConnected, githubToken, polls, lastPoll>>
    /\ UNCHANGED <<exVars, authVars, genVars>>

\* checkAuth's status fetch settles: an ok response is read with
\* response.json(); for any other response, or a rejected fetch, checkAuth
\* returns false, attempts is incremented and the ten-second timer is
\* started.
PollAnswered(resp) ==
    /\ clPc = "poll"
    /\ polls' = polls + 1
    /\ lastPoll' = resp
    /\ IF ResponseOk(resp)
       THEN /\ clPc' = "pollJson"
            /\ UNCHANGED attempts
       ELSE /\ attempts' = attempts + 1
            /\ clPc' = "wait"
    /\ UNCHANGED <<isGitHubConnected, githubToken, isConnecting>>
    /\ UNCHANGED <<exVars, authVars, genVars>>

\* response.json() of the status answer settles: authenticated, the token
\* is stored, GitHub is marked connected, the loop breaks and isConnecting
\* is reset; otherwise attempts is incremented and the ten-second timer is
\* started.
CheckAuth(data) ==
    /\ clPc = "pollJson"
    /\ lastPoll' = data
    /\ IF Authenticated(data)
       THEN /\ isGitHubConnected' = TRUE
            /\ githubToken' = data.token
            /\ isConnecting' = FALSE
            /\ clPc' = "idle"
            /\ UNCHANGED attempts
       ELSE /\ attempts' = attempts + 1
            /\ clPc' = "wait"
            /\ UNCHANGED <<isGitHubConnected, githubToken, isConnecting>>
    /\ UNCHANGED polls
    /\ UNCHANGED <<exVars, authVars, genVars>>

\* The timer fires and the loop test is evaluated again: another poll, or
\* the loop ends, isConnecting is reset and connectToGitHub returns through
\* its finally block.
Waited ==
    /\ clPc = "wait"
    /\ IF LoopContinues(attempts)
       THEN clPc' = "poll" /\ UNCHANGED isConnecting
       ELSE clPc' = "idle" /\ isConnecting' = FALSE
    /\ UNCHANGED <<isGitHubConnected, githubToken, attempts, polls, lastPoll>>
    /\ UNCHANGED <<exVars, authVars, genVars>>

\* The component's state after its first render.
ClientInit ==
    /\ clPc = "idle"
    /\ isConnecting = FALSE
    /\ isGitHubConnected = FALSE
    /\ githubToken = JsNull
    /\ attempts = 0
    /\ polls = 0
    /\ lastPoll = NoPoll

ClientNext ==
    \/ ConnectToGitHub
    \/ \E resp \in AuthAnswers : AuthAnswered(resp)
    \/ \E data \in AuthBodies : AuthParsed(data)
    \/ \E resolved \in BOOLEAN : OpenedUrl(resolved)
    \/ \E resp \in PollAnswers : PollAnswered(resp)
    \/ \E data \in PollBodies : CheckAuth(data)
    \/ Waited

\* C37: the client's polling loop terminates. One connect attempt issues at
\* most maxAttempts status polls; the poll that reports authenticated stores
\* the returned token, marks GitHub connected and ends the attempt; a poll
\* answered with anything else (pending, not found, expired, an error, a
\* rejected fetch or body) is followed by the timer and, while attempts
\* remain, by another poll; whenever no connect attempt is running
\* isConnecting is false, and every connect attempt ends with isConnecting
\* reset to false.
C37_PollingTerminates ==
    /\ [](polls <= maxAttempts)
    /\ [][\A resp \in PollAnswers :
            PollAnswered(resp) =>
               /\ polls' = polls + 1
               /\ isConnecting'
               /\ UNCHANGED <<isGitHubConnected, githubToken>>
               /\ clPc' = IF "throws" \notin DOMAIN resp /\ resp.status = 200
                          THEN "pollJson" ELSE "wait"]_vars
    /\ [][\A data \in PollBodies :
            CheckAuth(data) =>
               IF "throws" \notin DOMAIN data /\ data.authenticated
               THEN /\ isGitHubConnected'
                    /\ githubToken' = data.token
                    /\ clPc' = "idle"
                    /\ ~isConnecting'
               ELSE /\ clPc' = "wait"
                    /\ isConnecting'
                    /\ UNCHANGED <<isGitHubConnected, githubToken>>]_vars
    /\ [][Waited =>
            IF polls < maxAttempts
            THEN clPc' = "poll" /\ isConnecting'
            ELSE clPc' = "idle" /\ ~isConnecting']_vars
    /\ [](clPc = "idle" => ~isConnecting)
    /\ (isConnecting ~> ~isConnecting)

\* All maxAttempts polls were used without an authenticated answer, the last
\* one answered Expired, and the connect attempt has ended.
C37_Witness ==
    /\ polls = maxAttempts
    /\ attempts = maxAttempts
    /\ lastPoll = [status |-> 410]
    /\ clPc = "idle"
    /\ ~isConnecting
    /\ ~isGitHubConnected

(***************************************************************************)
(* Specifications.                                                         *)
(***************************************************************************)
\* The state after construction: no request handled yet.
Constructed == ExportInit /\ AuthInit /\ GenInit /\ ClientInit

\* The export pipeline: the client sends one of the project trees; the
\* session store is idle.
InitExport ==
    /\ Constructed
    /\ projectTree \in ExportTrees
    /\ GITHUB_CLIENT_ID = "client-id"

SpecExport == InitExport /\ [][ExportNext]_vars

\* The authorization flow, with the provider integration configured or not;
\* no export is requested.
InitAuth ==
    /\ Constructed
    /\ projectTree = getAppSchema
    /\ GITHUB_CLIENT_ID \in {"", "client-id"}

SpecAuth == InitAuth /\ [][AuthNext]_vars

\* The generation pipeline; no export is requested and the session store is
\* idle.
InitGen ==
    /\ Constructed
    /\ projectTree = getAppSchema
    /\ GITHUB_CLIENT_ID = "client-id"

SpecGen == InitGen /\ [][GenNext]_vars

\* The client's connect flow; the backend is idle. Every await of the flow
\* settles (a fetch answers or rejects, the timer fires), so a pending step
\* is eventually taken.
InitClient ==
    /\ Constructed
    /\ projectTree = getAppSchema
    /\ GITHUB_CLIENT_ID = "client-id"

SpecClient == InitClient /\ [][ClientNext]_vars /\ WF_vars(ClientNext)

Init == InitExport \/ InitAuth \/ InitGen \/ InitClient
Next == ExportNext \/ AuthNext \/ GenNext \/ ClientNext
Spec == Init /\ [][Next]_vars

====
